---- MODULE Spec2Model ----
(***************************************************************************)
(* dlprotoc: download a pinned protoc release for the current platform,    *)
(* verify its SHA-256 digest against the registry of known releases, and   *)
(* unpack it under OUT_DIR.                                                *)
(*                                                                         *)
(* Strings of the program whose characters matter (version strings, which  *)
(* the registry test compares) are sequences of one-character strings;     *)
(* Str turns one into the text that format! would print.                   *)
(***************************************************************************)
EXTENDS Integers, Sequences, FiniteSets, TLC

VARIABLES
    query,      \* the last call of a pure function of the crate and its result
    test,       \* position of tests::test_known_versions_constant
    osId,       \* std::env::consts::OS of the build
    archId,     \* std::env::consts::ARCH of the build
    outDir,     \* environment variable OUT_DIR ("" when unset)
    fs,         \* the directory OUT_DIR/protoc_zip on disk
    requests,   \* the URLs of the HTTP GETs issued so far, in order
    pc,         \* per process: position inside download_protoc
    calls,      \* per process: download_protoc calls started so far
    locals,     \* per process: local variables of the call in progress
    result,     \* per process: what the last finished call returned
    protocEnv,  \* per process: environment variable PROTOC ("" when unset)
    history     \* the calls that returned so far, in order, with what they did

pureVars == <<query, test>>
installVars ==
    <<osId, archId, outDir, fs, requests, pc, calls, locals, result, protocEnv, history>>
vars == <<query, test, osId, archId, outDir, fs, requests, pc, calls, locals, result,
          protocEnv, history>>

(***************************************************************************)
(* Platform enums                                                          *)
(***************************************************************************)
Linux == "OS::Linux"
OSX == "OS::OSX"
AArch64 == "CPUArch::AArch64"
X86_64 == "CPUArch::X86_64"

\* OS::all()
OS_all == <<Linux, OSX>>

\* CPUArch::all()
CPUArch_all == <<AArch64, X86_64>>

Range(s) == {s[i] : i \in 1..Len(s)}

\* OS::rust_identifier
rust_identifier(os) == IF os = Linux THEN "Linux" ELSE "OSX"

\* CPUArch::code_label
code_label(cpu) == IF cpu = AArch64 THEN "AArch64" ELSE "X86_64"

\* impl Display for OS, with the enum identifier in place of the URL token
OS_Display_identifier(os) == rust_identifier(os)

\* impl Display for OS: the token used in protoc URLs
OS_Display(os) == IF os = Linux THEN "linux" ELSE "osx"

\* impl Display for CPUArch: the token used in protoc URLs
CPUArch_Display(cpu) == IF cpu = AArch64 THEN "aarch_64" ELSE "x86_64"

\* The panic of OS::current() / CPUArch::current()
Panic == "panic"

\* OS::current() with a default arm in place of the panic
OS_current_fallback(id) == IF id = "macos" THEN OSX ELSE Linux

\* OS::current() on a build whose std::env::consts::OS is id
OS_current(id) ==
    IF id = "linux" THEN Linux
    ELSE IF id = "macos" THEN OSX
    ELSE Panic

\* CPUArch::current() on a build whose std::env::consts::ARCH is id
CPUArch_current(id) ==
    IF id = "aarch64" THEN AArch64
    ELSE IF id = "x86_64" THEN X86_64
    ELSE Panic

(***************************************************************************)
(* Strings                                                                 *)
(***************************************************************************)
RECURSIVE Str(_)
\* The text of a sequence of characters, as {version} prints it
Str(cs) == IF cs = <<>> THEN "" ELSE Head(cs) \o Str(Tail(cs))

\* The byte of each character that occurs in a version string
Byte == [c \in {".", "0", "1", "2", "3", "4", "5", "6", "7", "8", "9"} |->
            CASE c = "." -> 46 [] c = "0" -> 48 [] c = "1" -> 49 [] c = "2" -> 50
              [] c = "3" -> 51 [] c = "4" -> 52 [] c = "5" -> 53 [] c = "6" -> 54
              [] c = "7" -> 55 [] c = "8" -> 56 [] c = "9" -> 57]

RECURSIVE StrLess(_, _)
\* a < b for &str: bytewise lexicographic order
StrLess(a, b) ==
    IF b = <<>> THEN FALSE
    ELSE IF a = <<>> THEN TRUE
    ELSE IF Byte[Head(a)] # Byte[Head(b)] THEN Byte[Head(a)] < Byte[Head(b)]
    ELSE StrLess(Tail(a), Tail(b))

\* a >= b for &str
StrGE(a, b) == ~StrLess(a, b)

(***************************************************************************)
(* Results and errors                                                      *)
(***************************************************************************)
Ok(v) == [ok |-> TRUE, value |-> v]
Err(e) == [ok |-> FALSE, error |-> e]

\* Error::from_string
from_string(message) == [message |-> message]

\* Error::with_prefix
with_prefix(prefix, e) == [message |-> prefix \o ": " \o e]

(***************************************************************************)
(* The registry of known releases                                          *)
(***************************************************************************)
KnownVersion(os, cpu, version, hash) ==
    [os |-> os, cpu |-> cpu, version |-> version, hash |-> hash]

\* lib.rs's registry after a copy-and-paste slip: the fifth entry repeats the triple of
\* the sixth
KNOWN_VERSIONS_duplicate ==
  <<
    KnownVersion(Linux, X86_64, <<"2", "7", ".", "0">>,
        "e2bdce49564dbad4676023d174d9cdcf932238bc0b56a8349a5cb27bbafc26b0"),
    KnownVersion(Linux, AArch64, <<"2", "7", ".", "0">>,
        "1e4b2d8b145afe99a36602f305165761e46d2525aa94cbb907e2e983be6717ac"),
    KnownVersion(OSX, X86_64, <<"2", "7", ".", "0">>,
        "d956cf3a9e91a687aa4d1026e9261e5a587e4e0b545db0174509f6c448b8ce21"),
    KnownVersion(OSX, AArch64, <<"2", "7", ".", "0">>,
        "2cf59e3e3463bede1f10b7517efdddd97a3bd8cfd9cacc286407b657290dc781"),
    KnownVersion(Linux, X86_64, <<"2", "7", ".", "1">>,
        "8809c2ec85368c6b6e9af161b6771a153aa92670a24adbe46dd34fa02a04df2f"),
    KnownVersion(Linux, X86_64, <<"2", "7", ".", "1">>,
        "8970e3d8bbd67d53768fe8c2e3971bdd71e51cfe2001ca06dacad17258a7dae3"),
    KnownVersion(OSX, AArch64, <<"2", "7", ".", "1">>,
        "03b7af1bf469e7285dc51976ee5fa99412704dbd1c017105114852a37b165c12"),
    KnownVersion(OSX, X86_64, <<"2", "7", ".", "1">>,
        "8520d944f3a3890fa296a3b3b0d4bb18337337e2526bbbf1b507eeea3c2a1ec4")
  >>

\* lib.rs's registry with a 27.0 entry added after the 27.1 entries instead of before
KNOWN_VERSIONS_unordered ==
  <<
    KnownVersion(Linux, X86_64, <<"2", "7", ".", "0">>,
        "e2bdce49564dbad4676023d174d9cdcf932238bc0b56a8349a5cb27bbafc26b0"),
    KnownVersion(Linux, AArch64, <<"2", "7", ".", "0">>,
        "1e4b2d8b145afe99a36602f305165761e46d2525aa94cbb907e2e983be6717ac"),
    KnownVersion(OSX, X86_64, <<"2", "7", ".", "0">>,
        "d956cf3a9e91a687aa4d1026e9261e5a587e4e0b545db0174509f6c448b8ce21"),
    KnownVersion(Linux, AArch64, <<"2", "7", ".", "1">>,
        "8809c2ec85368c6b6e9af161b6771a153aa92670a24adbe46dd34fa02a04df2f"),
    KnownVersion(Linux, X86_64, <<"2", "7", ".", "1">>,
        "8970e3d8bbd67d53768fe8c2e3971bdd71e51cfe2001ca06dacad17258a7dae3"),
    KnownVersion(OSX, AArch64, <<"2", "7", ".", "0">>,
        "2cf59e3e3463bede1f10b7517efdddd97a3bd8cfd9cacc286407b657290dc781"),
    KnownVersion(OSX, AArch64, <<"2", "7", ".", "1">>,
        "03b7af1bf469e7285dc51976ee5fa99412704dbd1c017105114852a37b165c12"),
    KnownVersion(OSX, X86_64, <<"2", "7", ".", "1">>,
        "8520d944f3a3890fa296a3b3b0d4bb18337337e2526bbbf1b507eeea3c2a1ec4")
  >>

\* lib.rs
KNOWN_VERSIONS ==
  <<
    KnownVersion(Linux, X86_64, <<"2", "7", ".", "0">>,
        "e2bdce49564dbad4676023d174d9cdcf932238bc0b56a8349a5cb27bbafc26b0"),
    KnownVersion(Linux, AArch64, <<"2", "7", ".", "0">>,
        "1e4b2d8b145afe99a36602f305165761e46d2525aa94cbb907e2e983be6717ac"),
    KnownVersion(OSX, X86_64, <<"2", "7", ".", "0">>,
        "d956cf3a9e91a687aa4d1026e9261e5a587e4e0b545db0174509f6c448b8ce21"),
    KnownVersion(OSX, AArch64, <<"2", "7", ".", "0">>,
        "2cf59e3e3463bede1f10b7517efdddd97a3bd8cfd9cacc286407b657290dc781"),
    KnownVersion(Linux, AArch64, <<"2", "7", ".", "1">>,
        "8809c2ec85368c6b6e9af161b6771a153aa92670a24adbe46dd34fa02a04df2f"),
    KnownVersion(Linux, X86_64, <<"2", "7", ".", "1">>,
        "8970e3d8bbd67d53768fe8c2e3971bdd71e51cfe2001ca06dacad17258a7dae3"),
    KnownVersion(OSX, AArch64, <<"2", "7", ".", "1">>,
        "03b7af1bf469e7285dc51976ee5fa99412704dbd1c017105114852a37b165c12"),
    KnownVersion(OSX, X86_64, <<"2", "7", ".", "1">>,
        "8520d944f3a3890fa296a3b3b0d4bb18337337e2526bbbf1b507eeea3c2a1ec4")
  >>

\* versions.rs
versions_KNOWN_VERSIONS ==
  <<
    KnownVersion(Linux, X86_64, <<"2", "7", ".", "0">>,
        "e2bdce49564dbad4676023d174d9cdcf932238bc0b56a8349a5cb27bbafc26b0"),
    KnownVersion(Linux, AArch64, <<"2", "7", ".", "0">>,
        "1e4b2d8b145afe99a36602f305165761e46d2525aa94cbb907e2e983be6717ac"),
    KnownVersion(Linux, AArch64, <<"2", "7", ".", "1">>,
        "8809c2ec85368c6b6e9af161b6771a153aa92670a24adbe46dd34fa02a04df2f"),
    KnownVersion(Linux, X86_64, <<"2", "7", ".", "1">>,
        "8970e3d8bbd67d53768fe8c2e3971bdd71e51cfe2001ca06dacad17258a7dae3"),
    KnownVersion(OSX, AArch64, <<"2", "7", ".", "1">>,
        "03b7af1bf469e7285dc51976ee5fa99412704dbd1c017105114852a37b165c12"),
    KnownVersion(OSX, X86_64, <<"2", "7", ".", "1">>,
        "8520d944f3a3890fa296a3b3b0d4bb18337337e2526bbbf1b507eeea3c2a1ec4"),
    KnownVersion(Linux, AArch64, <<"2", "7", ".", "2">>,
        "ff4760bd4ae510d533e528cc6deb8e32e53f383f0ec01b0327233b4c2e8db314"),
    KnownVersion(Linux, X86_64, <<"2", "7", ".", "2">>,
        "4a95e0ea2e51720af86a92f48d4997c8756923a9d0c58fd8a850657cd7479caf"),
    KnownVersion(OSX, AArch64, <<"2", "7", ".", "2">>,
        "877de17b5d2662b96e68a6e208cb1851437ab3e2b419c2ef5b7b873ffac5357d"),
    KnownVersion(OSX, X86_64, <<"2", "7", ".", "2">>,
        "abc25a236571612d45eb4b6b6e6abe3ac9aecc34b195f76f248786844f5619c7"),
    KnownVersion(Linux, AArch64, <<"2", "7", ".", "3">>,
        "bdad36f3ad7472281d90568c4956ea2e203c216e0de005c6bd486f1920f2751c"),
    KnownVersion(Linux, X86_64, <<"2", "7", ".", "3">>,
        "6dab2adab83f915126cab53540d48957c40e9e9023969c3e84d44bfb936c7741"),
    KnownVersion(OSX, AArch64, <<"2", "7", ".", "3">>,
        "b22116bd97cdbd7ea25346abe635a9df268515fe5ef5afa93cd9a68fc2513f84"),
    KnownVersion(OSX, X86_64, <<"2", "7", ".", "3">>,
        "ce282648fed0e7fbd6237d606dc9ec168dd2c1863889b04efa0b19c47da65d1b"),
    KnownVersion(Linux, AArch64, <<"2", "8", ".", "2">>,
        "91d8253cdc0f0f0fc51c2b69c80677996632f525ad84504bfa5b4ee38ad3e49c"),
    KnownVersion(Linux, X86_64, <<"2", "8", ".", "2">>,
        "2febfd42b59ce93a28eb789019a470a3dd0449619bc04f84dad1333da261dec1"),
    KnownVersion(OSX, AArch64, <<"2", "8", ".", "2">>,
        "7bb048f52841789d9ec61983be0ce4c9e4fb3bd9a143462820ba9a3be0a03797"),
    KnownVersion(OSX, X86_64, <<"2", "8", ".", "2">>,
        "232f07d12bf4806207a79ec2c7378301c52e6f2f7efdd21c0dd416f0bda103ec"),
    KnownVersion(Linux, AArch64, <<"2", "9", ".", "0">>,
        "305f1be5ae7b2f39451870b312b45c1e0ba269901c83ba16d85f9f9d1441b348"),
    KnownVersion(Linux, X86_64, <<"2", "9", ".", "0">>,
        "3c51065af3b9a606d9e18a1bf628143734ff4b9e69725d6459857430ba7a78df"),
    KnownVersion(OSX, AArch64, <<"2", "9", ".", "0">>,
        "b2b59f03b030c8a748623d682a8b5bc9cc099e4bcfd06b8964ce89ec065b3103"),
    KnownVersion(OSX, X86_64, <<"2", "9", ".", "0">>,
        "e7a1cffc82e21daa67833011449c70ddff1eba3b115934387e6e8141efab092f"),
    KnownVersion(Linux, AArch64, <<"2", "9", ".", "2">>,
        "29cf483e2fb21827e5fac4964e35eae472a238e28c762f02fb17dcd93ff8b89f"),
    KnownVersion(Linux, X86_64, <<"2", "9", ".", "2">>,
        "52e9e7ece55c7e30e7e8bbd254b4b21b408a5309bca826763c7124b696a132e9"),
    KnownVersion(OSX, AArch64, <<"2", "9", ".", "2">>,
        "0e153a38d6da19594c980e7f7cd3ea0ddd52c9da1068c03c0d8533369fbfeb20"),
    KnownVersion(OSX, X86_64, <<"2", "9", ".", "2">>,
        "ba2bd983b5f06ec38d663b602884a597dea3990a43803d7e153ed8f7c54269e1"),
    KnownVersion(Linux, AArch64, <<"2", "9", ".", "3">>,
        "6427349140e01f06e049e707a58709a4f221ae73ab9a0425bc4a00c8d0e1ab32"),
    KnownVersion(Linux, X86_64, <<"2", "9", ".", "3">>,
        "3e866620c5be27664f3d2fa2d656b5f3e09b5152b42f1bedbf427b333e90021a"),
    KnownVersion(OSX, AArch64, <<"2", "9", ".", "3">>,
        "2b8a3403cd097f95f3ba656e14b76c732b6b26d7f183330b11e36ef2bc028765"),
    KnownVersion(OSX, X86_64, <<"2", "9", ".", "3">>,
        "9a788036d8f9854f7b03c305df4777cf0e54e5b081e25bf15252da87e0e90875"),
    KnownVersion(Linux, AArch64, <<"3", "0", ".", "0">>,
        "5ab347b71fb8a87139cec36aac4bd0ee3ac3f4f2af9fc68ebdf556e1c0a665c6"),
    KnownVersion(Linux, X86_64, <<"3", "0", ".", "0">>,
        "2fbbc1818463d7e6d93c19a8dea839e663ca5f8579a52ef78c7688188335fa6c"),
    KnownVersion(OSX, AArch64, <<"3", "0", ".", "0">>,
        "7eb5b51d37bac410ba70ef91c404f90b1fabcb823712ff656582d34acc87ca74"),
    KnownVersion(OSX, X86_64, <<"3", "0", ".", "0">>,
        "96bf3a5fbeefd57d7dc0c20a2c7bb3f226ad84b79e5b509386824322017b9417"),
    KnownVersion(Linux, AArch64, <<"3", "0", ".", "1">>,
        "e866d3dc4775e8032721915e83e3fb6e1ab4def7199a49b4f95c4d1f6cf4c03a"),
    KnownVersion(Linux, X86_64, <<"3", "0", ".", "1">>,
        "5537e15ab0c0e610f809573948d3ec7d6ef387a07991e1c361a2a0e8cad983e5"),
    KnownVersion(OSX, AArch64, <<"3", "0", ".", "1">>,
        "03467cfd967de12a61406b7473e80204d3ae38f30f82855318186d696237e3b9"),
    KnownVersion(OSX, X86_64, <<"3", "0", ".", "1">>,
        "a4aeefd2f59ccce59cfa01a89fe58adb40bb9010f43adfca3c4fee7fd37ec2c5"),
    KnownVersion(Linux, AArch64, <<"3", "0", ".", "2">>,
        "a3173ea338ef91b1605b88c4f8120d6c8ccf36f744d9081991d595d0d4352996"),
    KnownVersion(Linux, X86_64, <<"3", "0", ".", "2">>,
        "327e9397c6fb3ea2a542513a3221334c6f76f7aa524a7d2561142b67b312a01f"),
    KnownVersion(OSX, AArch64, <<"3", "0", ".", "2">>,
        "92728c650f6cf2b6c37891ae04ef5bc2d4b5f32c5fbbd101eda623f90bb95f63"),
    KnownVersion(OSX, X86_64, <<"3", "0", ".", "2">>,
        "65675c3bb874a2d5f0c941e61bce6175090be25fe466f0ec2d4a6f5978333624"),
    KnownVersion(Linux, AArch64, <<"3", "1", ".", "0">>,
        "999f4c023366b0b68c5c65272ead7877e47a2670245a79904b83450575da7e19"),
    KnownVersion(Linux, X86_64, <<"3", "1", ".", "0">>,
        "24e2ed32060b7c990d5eb00d642fde04869d7f77c6d443f609353f097799dd42"),
    KnownVersion(OSX, AArch64, <<"3", "1", ".", "0">>,
        "1fbe70a8d646875f91b6fd57294f763145292b2c9e1374ab09d6e2124afdd950"),
    KnownVersion(OSX, X86_64, <<"3", "1", ".", "0">>,
        "0360d9b6d9e3d66958cf6274d8514da49e76d475fd0d712181dcc7e9e056f2c8")
  >>

\* LATEST_VERSION raised to a release the registry of lib.rs has no entry for
LATEST_VERSION_bumped == <<"2", "7", ".", "2">>

\* LATEST_VERSION left behind at the release before the registry's last
LATEST_VERSION_stale == <<"2", "7", ".", "0">>

\* lib.rs: const LATEST_VERSION: &str = "27.1"
LATEST_VERSION == <<"2", "7", ".", "1">>

\* versions.rs: KNOWN_VERSIONS[KNOWN_VERSIONS.len() - 1].version
versions_LATEST_VERSION ==
    versions_KNOWN_VERSIONS[Len(versions_KNOWN_VERSIONS)].version

\* The two modules that hold a registry
Modules == {"lib", "versions"}
TableOf(m) == IF m = "lib" THEN KNOWN_VERSIONS ELSE versions_KNOWN_VERSIONS
LatestOf(m) == IF m = "lib" THEN LATEST_VERSION ELSE versions_LATEST_VERSION

\* The condition of known_hash's loop with the version left out
KnownMatchesAnyVersion(known, os, cpu, version) ==
    known.os = os /\ known.cpu = cpu

\* known.os == os && known.cpu == cpu && known.version == version
KnownMatches(known, os, cpu, version) ==
    known.os = os /\ known.cpu = cpu /\ known.version = version

RECURSIVE known_hash_from(_, _, _, _, _)
\* The loop of known_hash over table, from position i on
known_hash_from(table, i, os, cpu, version) ==
    IF i > Len(table)
    THEN Err(from_string("unknown hash for " \o OS_Display(os) \o " "
                         \o CPUArch_Display(cpu) \o " " \o Str(version)))
    ELSE IF KnownMatches(table[i], os, cpu, version)
    THEN Ok(table[i].hash)
    ELSE known_hash_from(table, i + 1, os, cpu, version)

\* lib.rs known_hash
known_hash(os, cpu, version) == known_hash_from(KNOWN_VERSIONS, 1, os, cpu, version)

\* versions.rs known_hash
versions_known_hash(os, cpu, version) ==
    known_hash_from(versions_KNOWN_VERSIONS, 1, os, cpu, version)

\* make_url
make_url(os, cpu, version) ==
    "https://github.com/protocolbuffers/protobuf/releases/download/v" \o Str(version)
        \o "/protoc-" \o Str(version) \o "-" \o OS_Display(os) \o "-"
        \o CPUArch_Display(cpu) \o ".zip"

(***************************************************************************)
(* Calls of the pure functions, on inputs drawn from small sets            *)
(***************************************************************************)
\* Version strings tried: every version of the two registries, and some
\* that no registry holds
UnknownVersions ==
    { <<"0", ".", "0", ".", "0">>, <<"2", "6", ".", "1">>, <<"2", "7">>,
      <<"2", "7", ".", "1", "0">>, <<"2", "7", ".", "9">>, <<"3", "1", ".", "1">> }
Versions ==
    {KNOWN_VERSIONS[i].version : i \in 1..Len(KNOWN_VERSIONS)}
        \cup {versions_KNOWN_VERSIONS[i].version : i \in 1..Len(versions_KNOWN_VERSIONS)}
        \cup UnknownVersions

NoQuery == [op |-> "none"]

\* known_hash(os, cpu, version) of module m
KnownHashCall(m, os, cpu, version) ==
    /\ test.at = "idle"
    /\ query' = [op |-> "known_hash", module |-> m, os |-> os, cpu |-> cpu,
                 version |-> version,
                 result |-> IF m = "lib" THEN known_hash(os, cpu, version)
                            ELSE versions_known_hash(os, cpu, version)]
    /\ UNCHANGED <<test, installVars>>

\* make_url(os, cpu, version)
MakeUrlCall(os, cpu, version) ==
    /\ test.at = "idle"
    /\ query' = [op |-> "make_url", os |-> os, cpu |-> cpu, version |-> version,
                 result |-> make_url(os, cpu, version)]
    /\ UNCHANGED <<test, installVars>>

(***************************************************************************)
(* tests::test_known_versions_constant, one loop iteration per step, run   *)
(* over the registry of either module.  The pure functions are called      *)
(* between test runs, and a test run starts from a cleared query.          *)
(***************************************************************************)
NoTest == [at |-> "idle"]

\* let mut all_versions = HashSet::new(); let mut last_version = KNOWN_VERSIONS[0].version
TestBegin(m) ==
    /\ test.at = "idle"
    /\ test' = [at |-> "loop", module |-> m, i |-> 1, all_versions |-> {},
                last_version |-> TableOf(m)[1].version]
    /\ query' = NoQuery
    /\ UNCHANGED installVars

\* One iteration of the for loop: the two assertions, then the updates
TestStep ==
    /\ test.at = "loop"
    /\ test.i <= Len(TableOf(test.module))
    /\ LET known_version == TableOf(test.module)[test.i]
           key == [os |-> known_version.os, cpu |-> known_version.cpu,
                   version |-> Str(known_version.version)]
       IN  IF ~StrGE(known_version.version, test.last_version)
           THEN test' = [test EXCEPT !.at = "failed: not increasing"]
           ELSE IF key \in test.all_versions
           THEN test' = [test EXCEPT !.at = "failed: duplicate version",
                                     !.last_version = known_version.version]
           ELSE test' = [test EXCEPT !.i = @ + 1,
                                     !.last_version = known_version.version,
                                     !.all_versions = @ \cup {key}]
    /\ UNCHANGED <<query, installVars>>

\* assert_eq!(LATEST_VERSION, last_version) after the loop
TestEnd ==
    /\ test.at = "loop"
    /\ test.i > Len(TableOf(test.module))
    /\ test' = [test EXCEPT !.at = IF LatestOf(test.module) = test.last_version
                                   THEN "passed" ELSE "failed: latest"]
    /\ UNCHANGED <<query, installVars>>

\* The test is run again
TestReset ==
    /\ test.at \notin {"idle", "loop"}
    /\ test' = NoTest
    /\ UNCHANGED <<query, installVars>>

(***************************************************************************)
(* The network and the archives it may serve                               *)
(***************************************************************************)
\* Files of a protoc distribution, as tests::test_unpack_fetch_fake builds one: the
\* relative path, the directories above it, the unix permissions (0o755 is 493,
\* 0o644 is 420) and the contents
ProtocEntries(label) ==
    << [path |-> "bin/protoc", dirs |-> {"bin"}, mode |-> 493,
        bytes |-> "protoc " \o label],
       [path |-> "include/google/protobuf/duration.proto",
        dirs |-> {"include", "include/google", "include/google/protobuf"},
        mode |-> 420, bytes |-> "syntax = \"proto3\";"] >>

\* The archive the release host publishes for (os, cpu) at lib.rs's LATEST_VERSION,
\* with the SHA-256 of its bytes
UpstreamRelease(os, cpu) ==
    [ name |-> "protoc-" \o Str(LATEST_VERSION) \o "-" \o OS_Display(os) \o "-"
               \o CPUArch_Display(cpu) \o ".zip",
      sha256 |->
        CASE os = Linux /\ cpu = AArch64 ->
               "8809c2ec85368c6b6e9af161b6771a153aa92670a24adbe46dd34fa02a04df2f"
          [] os = Linux /\ cpu = X86_64 ->
               "8970e3d8bbd67d53768fe8c2e3971bdd71e51cfe2001ca06dacad17258a7dae3"
          [] os = OSX /\ cpu = AArch64 ->
               "03b7af1bf469e7285dc51976ee5fa99412704dbd1c017105114852a37b165c12"
          [] os = OSX /\ cpu = X86_64 ->
               "8520d944f3a3890fa296a3b3b0d4bb18337337e2526bbbf1b507eeea3c2a1ec4",
      zip |-> TRUE,
      entries |-> ProtocEntries(Str(LATEST_VERSION) \o " " \o OS_Display(os) \o " "
                                \o CPUArch_Display(cpu)) ]

\* A well-formed archive that differs from every release in one byte of bin/protoc
TamperedArchive ==
    [ name |-> "tampered.zip",
      sha256 |-> "5f70bf18a086007016e948b04aed3b82103a36bea41755b6cddfaf10ace3c6ef",
      zip |-> TRUE,
      entries |-> ProtocEntries("tampered") ]

\* A response body that is no Zip archive
NotAnArchive ==
    [ name |-> "index.html",
      sha256 |-> "e3b0c44298fc1c149afbf4c8996fb92427ae41e4649b934ca495991b7852b855",
      zip |-> FALSE,
      entries |-> <<>> ]

Bodies ==
    {UpstreamRelease(os, cpu) : os \in Range(OS_all), cpu \in Range(CPUArch_all)}
        \cup {TamperedArchive, NotAnArchive}

\* The three ways reqwest fails in download_unverified: get(), error_for_status(),
\* bytes()
TransportErrors == {"error sending request", "HTTP status client error (404 Not Found)",
                    "error decoding response body"}

\* What one GET may come back with
Responses ==
    {[ok |-> TRUE, body |-> b] : b \in Bodies}
        \cup {[ok |-> FALSE, error |-> e] : e \in TransportErrors}

\* protoc_hash: the SHA-256 of the data
protoc_hash(data) == data.sha256

\* impl From<reqwest::Error> for Error, for an error that carries its URL
from_reqwest(url, e) ==
    from_string("failed downloading protoc from url: " \o url \o ": " \o e)

(***************************************************************************)
(* download_protoc                                                         *)
(***************************************************************************)
Procs == {1, 2}

\* download_protoc calls one process makes at most
MaxCalls == 2

NoData == [name |-> "", sha256 |-> "", zip |-> FALSE, entries |-> <<>>]
NoFs == [exists |-> FALSE, dirs |-> {}, files |-> {}]

NoLocals ==
    [ protoc_distribution_path |-> "", os |-> "", cpu |-> "", version |-> <<>>,
      expected_hash |-> "", url |-> "", data |-> NoData, actual_hash |-> "",
      next |-> 0,
      \* bookkeeping about the call, for the properties below
      fs_before |-> NoFs, fetches |-> 0, verified |-> FALSE, written |-> 0,
      observed |-> [fs |-> NoFs, extracting |-> {}] ]

\* What the exists() test of process p meets: the destination as it is then, and the
\* other processes that are in the middle of an extraction
Observation(p) ==
    [fs |-> fs, extracting |-> {q \in Procs \ {p} : pc[q] = "extract"}]

\* No call is in progress in any process
Quiescent == \A q \in Procs : pc[q] \in {"idle", "returned", "panicked"}

\* Path::join
join(path, name) == path \o "/" \o name

\* A return of download_protoc with value r, from a call whose locals are l
Return(p, r, l) ==
    /\ pc' = [pc EXCEPT ![p] = "returned"]
    /\ result' = [result EXCEPT ![p] = r]
    /\ locals' = [locals EXCEPT ![p] = l]
    /\ history' = Append(history, [proc |-> p, ok |-> r.ok,
                                   existed |-> l.fs_before.exists,
                                   fetches |-> l.fetches,
                                   written |-> l.written])

\* download_protoc is entered: std::env::var("OUT_DIR") and the join
Begin(p) ==
    /\ pc[p] \in {"idle", "returned"}
    /\ calls[p] < MaxCalls
    /\ calls' = [calls EXCEPT ![p] = @ + 1]
    /\ IF outDir = ""
       THEN Return(p, Err(with_prefix("env", "environment variable not found")),
                   [NoLocals EXCEPT !.fs_before = fs])
       ELSE /\ pc' = [pc EXCEPT ![p] = "exists"]
            /\ locals' = [locals EXCEPT ![p] =
                            [NoLocals EXCEPT
                                !.protoc_distribution_path = join(outDir, "protoc_zip"),
                                !.fs_before = fs]]
            /\ UNCHANGED <<result, history>>
    /\ UNCHANGED <<pureVars, osId, archId, outDir, fs, requests, protocEnv>>

\* download_protoc is called by a build that runs after the builds before it
Call(p) == Quiescent /\ Begin(p)

\* download_protoc is called by a build that runs beside another build: nothing in
\* the program makes it wait
CallConcurrently(p) == Begin(p)

\* download_protoc without its exists() test: every call installs
ExistsIgnored(p) ==
    /\ pc[p] = "exists"
    /\ pc' = [pc EXCEPT ![p] = "current"]
    /\ locals' = [locals EXCEPT ![p].observed = Observation(p)]
    /\ UNCHANGED <<pureVars, osId, archId, outDir, fs, requests, calls, result,
                   protocEnv, history>>

\* download_protoc with a lock around the test and the install: the exists() test
\* waits while another process is installing
ExistsLocked(p) ==
    /\ pc[p] = "exists"
    /\ \A q \in Procs \ {p} : pc[q] \in {"idle", "exists", "returned", "panicked"}
    /\ pc' = [pc EXCEPT ![p] = IF fs.exists THEN "set_var" ELSE "current"]
    /\ locals' = [locals EXCEPT ![p].observed = Observation(p)]
    /\ UNCHANGED <<pureVars, osId, archId, outDir, fs, requests, calls, result,
                   protocEnv, history>>

\* download_protoc with the set_var moved before the exists() test: PROTOC is
\* written whether or not the install then succeeds
ExistsSetsVar(p) ==
    /\ pc[p] = "exists"
    /\ pc' = [pc EXCEPT ![p] = IF fs.exists THEN "set_var" ELSE "current"]
    /\ locals' = [locals EXCEPT ![p].observed = Observation(p)]
    /\ protocEnv' = [protocEnv EXCEPT ![p] = locals[p].protoc_distribution_path]
    /\ UNCHANGED <<pureVars, osId, archId, outDir, fs, requests, calls, result, history>>

\* if protoc_distribution_path.exists() { print!(...) } else { write_protoc(...)? }
Exists(p) ==
    /\ pc[p] = "exists"
    /\ pc' = [pc EXCEPT ![p] = IF fs.exists THEN "set_var" ELSE "current"]
    /\ locals' = [locals EXCEPT ![p].observed = Observation(p)]
    /\ UNCHANGED <<pureVars, osId, archId, outDir, fs, requests, calls, result,
                   protocEnv, history>>

\* fetch_current: OS::current(), CPUArch::current(), LATEST_VERSION
Current(p) ==
    /\ pc[p] = "current"
    /\ IF OS_current(osId) = Panic \/ CPUArch_current(archId) = Panic
       THEN /\ pc' = [pc EXCEPT ![p] = "panicked"]
            /\ UNCHANGED locals
       ELSE /\ pc' = [pc EXCEPT ![p] = "known_hash"]
            /\ locals' = [locals EXCEPT ![p].os = OS_current(osId),
                                        ![p].cpu = CPUArch_current(archId),
                                        ![p].version = LATEST_VERSION]
    /\ UNCHANGED <<pureVars, osId, archId, outDir, fs, requests, calls, result, protocEnv,
                   history>>

\* fetch_current: let expected_hash = known_hash(os, cpu, version)?
LookupHash(p) ==
    /\ pc[p] = "known_hash"
    /\ LET r == known_hash(locals[p].os, locals[p].cpu, locals[p].version)
       IN  IF r.ok
           THEN /\ pc' = [pc EXCEPT ![p] = "download"]
                /\ locals' = [locals EXCEPT ![p].expected_hash = r.value]
                /\ UNCHANGED <<result, history>>
           ELSE Return(p, Err(r.error), locals[p])
    /\ UNCHANGED <<pureVars, osId, archId, outDir, fs, requests, calls, protocEnv>>

\* fetch_current with one more attempt after a first transport error
DownloadRetry(p) ==
    /\ pc[p] = "download"
    /\ LET url == make_url(OS_current(osId), CPUArch_current(archId), locals[p].version)
       IN  /\ requests' = Append(requests, url)
           /\ \E response \in Responses :
                IF response.ok
                THEN /\ pc' = [pc EXCEPT ![p] = "verify"]
                     /\ locals' = [locals EXCEPT ![p].url = url,
                                                 ![p].data = response.body,
                                                 ![p].fetches = @ + 1]
                     /\ UNCHANGED <<result, history>>
                ELSE IF locals[p].fetches = 0
                THEN /\ locals' = [locals EXCEPT ![p].url = url, ![p].fetches = @ + 1]
                     /\ UNCHANGED <<pc, result, history>>
                ELSE Return(p, Err(from_reqwest(url, response.error)),
                            [locals[p] EXCEPT !.url = url, !.fetches = @ + 1])
    /\ UNCHANGED <<pureVars, osId, archId, outDir, fs, calls, protocEnv>>

\* download_unverified with unwrap() in place of its ? operators: a transport error
\* aborts the process
DownloadUnwrap(p) ==
    /\ pc[p] = "download"
    /\ LET url == make_url(OS_current(osId), CPUArch_current(archId), locals[p].version)
       IN  /\ requests' = Append(requests, url)
           /\ \E response \in Responses :
                /\ pc' = [pc EXCEPT ![p] = IF response.ok THEN "verify" ELSE "panicked"]
                /\ locals' = [locals EXCEPT
                                 ![p].url = url,
                                 ![p].data = IF response.ok THEN response.body ELSE @,
                                 ![p].fetches = @ + 1]
    /\ UNCHANGED <<pureVars, osId, archId, outDir, fs, calls, protocEnv, result, history>>

\* fetch_current: download_unverified(OS::current(), CPUArch::current(), version)?
Download(p) ==
    /\ pc[p] = "download"
    /\ LET url == make_url(OS_current(osId), CPUArch_current(archId), locals[p].version)
       IN  /\ requests' = Append(requests, url)
           /\ \E response \in Responses :
                IF response.ok
                THEN /\ pc' = [pc EXCEPT ![p] = "verify"]
                     /\ locals' = [locals EXCEPT ![p].url = url,
                                                 ![p].data = response.body,
                                                 ![p].fetches = @ + 1]
                     /\ UNCHANGED <<result, history>>
                ELSE Return(p, Err(from_reqwest(url, response.error)),
                            [locals[p] EXCEPT !.url = url, !.fetches = @ + 1])
    /\ UNCHANGED <<pureVars, osId, archId, outDir, fs, calls, protocEnv>>

\* The comparison of fetch_current with its outcome inverted
HashesDifferInverted(expected_hash, actual_hash) == expected_hash = actual_hash

\* The comparison of fetch_current reduced to a warning: nothing is a mismatch
HashesDifferNever(expected_hash, actual_hash) == FALSE

\* expected_hash != actual_hash
HashesDiffer(expected_hash, actual_hash) == expected_hash # actual_hash

\* fetch_current: protoc_hash(&data), the comparison, and Ok(data)
Verify(p) ==
    /\ pc[p] = "verify"
    /\ LET actual_hash == protoc_hash(locals[p].data)
       IN  IF HashesDiffer(locals[p].expected_hash, actual_hash)
           THEN Return(p, Err(from_string(
                           "hash mismatch for " \o OS_Display(locals[p].os) \o " "
                               \o CPUArch_Display(locals[p].cpu) \o " "
                               \o Str(locals[p].version))),
                       [locals[p] EXCEPT !.actual_hash = actual_hash])
           ELSE /\ pc' = [pc EXCEPT ![p] = "unzip"]
                /\ locals' = [locals EXCEPT ![p].actual_hash = actual_hash,
                                            ![p].verified = TRUE]
                /\ UNCHANGED <<result, history>>
    /\ UNCHANGED <<pureVars, osId, archId, outDir, fs, requests, calls, protocEnv>>

\* write_protoc_zip_data: zip::ZipArchive::new(Cursor::new(&protoc_zip_bytes))?
Unzip(p) ==
    /\ pc[p] = "unzip"
    /\ IF locals[p].data.zip
       THEN /\ pc' = [pc EXCEPT ![p] = "extract"]
            /\ UNCHANGED <<result, locals, history>>
       ELSE Return(p, Err(with_prefix("zip error", "invalid Zip archive")), locals[p])
    /\ UNCHANGED <<pureVars, osId, archId, outDir, fs, requests, calls, protocEnv>>

\* The file that entry e of an archive becomes on disk
FileOf(e) == [path |-> e.path, mode |-> e.mode, bytes |-> e.bytes]

\* The extraction of an entry that leaves the file with the default permissions
WriteEntryDefaultMode(disk, e) ==
    [exists |-> TRUE,
     dirs |-> disk.dirs \cup e.dirs,
     files |-> {f \in disk.files : f.path # e.path}
                  \cup {[path |-> e.path, mode |-> 420, bytes |-> e.bytes]}]

\* The file system after entry e was written under the destination: the directories
\* above it exist, and the file has the entry's bytes and permissions
WriteEntry(disk, e) ==
    [exists |-> TRUE,
     dirs |-> disk.dirs \cup e.dirs,
     files |-> {f \in disk.files : f.path # e.path} \cup {FileOf(e)}]

\* write_protoc_zip_data: zip.extract(destination_dir)?, one file system operation
\* per step: the destination directory is created, then each entry is written; any
\* of them may fail with an io error, and what was written before stays on disk
Extract(p) ==
    /\ pc[p] = "extract"
    /\ LET entries == locals[p].data.entries
           n == locals[p].next
       IN  \E io_ok \in BOOLEAN :
             IF ~io_ok
             THEN /\ Return(p, Err(with_prefix("io error", "Permission denied")),
                             locals[p])
                  /\ UNCHANGED fs
             ELSE /\ fs' = IF n = 0 THEN [fs EXCEPT !.exists = TRUE]
                           ELSE WriteEntry(fs, entries[n])
                  /\ locals' = [locals EXCEPT ![p].next = n + 1,
                                              ![p].written = @ + 1]
                  /\ pc' = [pc EXCEPT ![p] = IF n = Len(entries) THEN "set_var"
                                             ELSE "extract"]
                  /\ UNCHANGED <<result, history>>
    /\ UNCHANGED <<pureVars, osId, archId, outDir, requests, calls, protocEnv>>

\* download_protoc: std::env::set_var("PROTOC", &protoc_distribution_path); Ok(())
SetVar(p) ==
    /\ pc[p] = "set_var"
    /\ protocEnv' = [protocEnv EXCEPT ![p] = locals[p].protoc_distribution_path]
    /\ Return(p, Ok("()"), locals[p])
    /\ UNCHANGED <<pureVars, osId, archId, outDir, fs, requests, calls>>

(***************************************************************************)
(* Specifications                                                          *)
(***************************************************************************)
\* Runtime identifiers of the platforms the build may run on
OsIds == {"linux", "macos", "windows"}
ArchIds == {"aarch64", "x86_64", "riscv64"}
OutDirs == {"", "/target/debug/build/app/out"}

NoResult == [ok |-> FALSE, error |-> [message |-> "not called"]]

InstallIdle ==
    /\ fs = NoFs
    /\ requests = <<>>
    /\ pc = [p \in Procs |-> "idle"]
    /\ calls = [p \in Procs |-> 0]
    /\ locals = [p \in Procs |-> NoLocals]
    /\ result = [p \in Procs |-> NoResult]
    /\ protocEnv = [p \in Procs |-> ""]
    /\ history = <<>>

\* Build processes call download_protoc one after the other
Init ==
    /\ query = NoQuery
    /\ test = NoTest
    /\ osId \in OsIds
    /\ archId \in ArchIds
    /\ outDir \in OutDirs
    /\ InstallIdle

Next ==
    \E p \in Procs :
        \/ Call(p)
        \/ Exists(p)
        \/ Current(p)
        \/ LookupHash(p)
        \/ Download(p)
        \/ Verify(p)
        \/ Unzip(p)
        \/ Extract(p)
        \/ SetVar(p)

Spec == Init /\ [][Next]_vars

\* Builds on a supported platform that share one OUT_DIR and may run at the same time
ConcInit ==
    /\ query = NoQuery
    /\ test = NoTest
    /\ osId = "linux"
    /\ archId \in {"aarch64", "x86_64"}
    /\ outDir = "/target/debug/build/app/out"
    /\ InstallIdle

ConcNext ==
    \E p \in Procs :
        \/ CallConcurrently(p)
        \/ Exists(p)
        \/ Current(p)
        \/ LookupHash(p)
        \/ Download(p)
        \/ Verify(p)
        \/ Unzip(p)
        \/ Extract(p)
        \/ SetVar(p)

ConcSpec == ConcInit /\ [][ConcNext]_vars

\* The pure functions of the crate and the registry test, on every input
PureInit ==
    /\ query = NoQuery
    /\ test = NoTest
    /\ osId = "linux"
    /\ archId = "x86_64"
    /\ outDir = ""
    /\ InstallIdle

PureNext ==
    \/ \E m \in Modules, os \in Range(OS_all), cpu \in Range(CPUArch_all),
          version \in Versions : KnownHashCall(m, os, cpu, version)
    \/ \E os \in Range(OS_all), cpu \in Range(CPUArch_all), version \in Versions :
          MakeUrlCall(os, cpu, version)
    \/ \E m \in Modules : TestBegin(m)
    \/ TestStep
    \/ TestEnd
    \/ TestReset

PureSpec == PureInit /\ [][PureNext]_vars

(***************************************************************************)
(* Properties of the registry and of the pure functions (PureSpec)         *)
(***************************************************************************)
\* Positions of table whose (os, cpu, version) triple is exactly the one given
Hits(table, os, cpu, version) ==
    {i \in 1..Len(table) :
        table[i].os = os /\ table[i].cpu = cpu /\ table[i].version = version}

\* The value of a decimal digit
Digit(c) == Byte[c] - Byte["0"]

RECURSIVE Components(_, _, _)
\* The numeric components of a dotted version string: "27.10" is <<27, 10>>
Components(cs, current, done) ==
    IF cs = <<>> THEN Append(done, current)
    ELSE IF Head(cs) = "." THEN Components(Tail(cs), 0, Append(done, current))
    ELSE Components(Tail(cs), 10 * current + Digit(Head(cs)), done)

RECURSIVE NumLess(_, _)
\* Order of version numbers by their components, major first
NumLess(a, b) ==
    IF b = <<>> THEN FALSE
    ELSE IF a = <<>> THEN TRUE
    ELSE IF Head(a) # Head(b) THEN Head(a) < Head(b)
    ELSE NumLess(Tail(a), Tail(b))

VersionNumLess(v, w) == NumLess(Components(v, 0, <<>>), Components(w, 0, <<>>))

\* C5: known_hash(os, cpu, version) returns the digest of the registry entry whose
\* triple equals the arguments exactly, and fails with the "unknown hash" error if and
\* only if no entry matches all three fields; version "0.0.0" fails on every platform.
C5_KnownHashExactMatch ==
    query.op = "known_hash" =>
        LET table == TableOf(query.module)
            hits == Hits(table, query.os, query.cpu, query.version)
        IN  /\ query.result.ok <=> hits # {}
            /\ query.result.ok => \A i \in hits : query.result.value = table[i].hash
            /\ ~query.result.ok =>
                  query.result.error.message =
                      "unknown hash for "
                          \o (IF query.os = Linux THEN "linux" ELSE "osx") \o " "
                          \o (IF query.cpu = AArch64 THEN "aarch_64" ELSE "x86_64")
                          \o " " \o Str(query.version)
            /\ query.version = <<"0", ".", "0", ".", "0">> => ~query.result.ok

\* C5 witness: versions.rs knows 27.0 for Linux only; the lookup for OSX fails although
\* the same OS and CPU have entries for later versions
C5_Witness ==
    /\ query.op = "known_hash"
    /\ query.module = "versions"
    /\ query.os = OSX
    /\ query.cpu = X86_64
    /\ query.version = <<"2", "7", ".", "0">>
    /\ ~query.result.ok

\* C6: for every (os, cpu) of OS::all() x CPUArch::all() the registry has an entry for
\* LATEST_VERSION, so known_hash(os, cpu, LATEST_VERSION) succeeds.
C6_LatestKnownEverywhere ==
    /\ \A m \in Modules : \A os \in Range(OS_all) : \A cpu \in Range(CPUArch_all) :
          Hits(TableOf(m), os, cpu, LatestOf(m)) # {}
    /\ (query.op = "known_hash" /\ query.version = LatestOf(query.module))
          => query.result.ok

\* C6 witness: the lookup of the latest version of lib.rs for OSX on AArch64 succeeded
C6_Witness ==
    /\ query.op = "known_hash"
    /\ query.module = "lib"
    /\ query.os = OSX
    /\ query.cpu = AArch64
    /\ query.version = LATEST_VERSION
    /\ query.result.ok

\* C7: in each registry, entries at different positions have different
\* (os, cpu, version) triples; the test's duplicate assertion never fails.
C7_RegistryUnique ==
    /\ \A m \in Modules : \A i, j \in 1..Len(TableOf(m)) :
          i # j => <<TableOf(m)[i].os, TableOf(m)[i].cpu, TableOf(m)[i].version>>
                     # <<TableOf(m)[j].os, TableOf(m)[j].cpu, TableOf(m)[j].version>>
    /\ test.at # "failed: duplicate version"
    /\ test.at = "loop" => Cardinality(test.all_versions) = test.i - 1

\* C7 witness: the test has inserted every entry of versions.rs into its set
C7_Witness ==
    /\ test.at = "loop"
    /\ test.module = "versions"
    /\ test.i = Len(versions_KNOWN_VERSIONS) + 1
    /\ Cardinality(test.all_versions) = Len(versions_KNOWN_VERSIONS)

\* C8: LATEST_VERSION equals the version of the last entry of the registry of the same
\* module, for the derived constant of versions.rs and the literal of lib.rs.
C8_LatestIsLastEntry ==
    /\ LATEST_VERSION = KNOWN_VERSIONS[Len(KNOWN_VERSIONS)].version
    /\ versions_LATEST_VERSION
          = versions_KNOWN_VERSIONS[Len(versions_KNOWN_VERSIONS)].version
    /\ test.at # "failed: latest"
    /\ (test.at = "loop" /\ test.i > 1) =>
          test.last_version = TableOf(test.module)[test.i - 1].version

\* C8 witness: the test's final assert_eq! passed on the registry of lib.rs
C8_Witness ==
    /\ test.at = "passed"
    /\ test.module = "lib"
    /\ test.last_version = <<"2", "7", ".", "1">>

\* C9: in declaration order each entry's version is greater than or equal to the one
\* before it, as strings and as major.minor numbers, so no entry's version is greater
\* than the last entry's.
C9_RegistryOrdered ==
    /\ \A m \in Modules : \A i \in 2..Len(TableOf(m)) :
          /\ ~StrLess(TableOf(m)[i].version, TableOf(m)[i - 1].version)
          /\ ~VersionNumLess(TableOf(m)[i].version, TableOf(m)[i - 1].version)
    /\ \A m \in Modules : \A i \in 1..Len(TableOf(m)) :
          /\ ~StrLess(TableOf(m)[Len(TableOf(m))].version, TableOf(m)[i].version)
          /\ ~VersionNumLess(TableOf(m)[Len(TableOf(m))].version, TableOf(m)[i].version)
    /\ test.at # "failed: not increasing"

\* C9 witness: the test's loop is past the step from 27.3 to 28.2 in versions.rs
C9_Witness ==
    /\ test.at = "loop"
    /\ test.module = "versions"
    /\ test.i > 2
    /\ test.last_version = <<"2", "8", ".", "2">>
    /\ versions_KNOWN_VERSIONS[test.i - 2].version = <<"2", "7", ".", "3">>

PinnedDigests ==
    {KNOWN_VERSIONS[i].hash :
        i \in Hits(KNOWN_VERSIONS, OS_current(osId), CPUArch_current(archId),
                   LATEST_VERSION)}

\* The call of p is the last that returned, and no call has started since
JustReturned(p) ==
    /\ Quiescent
    /\ history # <<>>
    /\ history[Len(history)].proc = p

\* C1: extraction into the destination begins only after the digest of the downloaded
\* bytes was found equal to the registry digest for (current OS, current CPU,
\* LATEST_VERSION): whenever an install has created or written anything under the
\* destination, its verification has succeeded; nothing else gets onto the disk.
C1_ExtractOnlyVerified ==
    /\ \A p \in Procs :
          locals[p].written > 0 =>
              /\ locals[p].verified
              /\ locals[p].fetches = 1
              /\ protoc_hash(locals[p].data) \in PinnedDigests
              /\ locals[p].expected_hash = protoc_hash(locals[p].data)
    /\ fs.exists => \E p \in Procs : locals[p].written > 0 \/ locals[p].fs_before.exists
    /\ \A f \in fs.files :
          \E b \in Bodies :
              /\ b.sha256 \in PinnedDigests
              /\ \E e \in Range(b.entries) : f = FileOf(e)

\* C1 witness: an install is between two writes of its extraction
C1_Witness ==
    \E p \in Procs :
        /\ pc[p] = "extract"
        /\ locals[p].written = 2
        /\ fs.files # {}

\* C2: when the downloaded bytes' SHA-256 differs from the digest pinned for the
\* (os, arch, version) triple the URL was built from, fetch_current returns the hash
\* mismatch error: the bytes go no further, there was one fetch, and the destination
\* is as it was before the call.
C2_MismatchIsHardFailure ==
    \A p \in Procs :
        ( /\ locals[p].data # NoData
          /\ pc[p] # "verify"
          /\ protoc_hash(locals[p].data) \notin PinnedDigests )
        => /\ locals[p].url = make_url(locals[p].os, locals[p].cpu, locals[p].version)
           /\ locals[p].os = OS_current(osId)
           /\ locals[p].cpu = CPUArch_current(archId)
           /\ pc[p] = "returned"
           /\ ~result[p].ok
           /\ result[p].error.message =
                 "hash mismatch for " \o OS_Display(locals[p].os) \o " "
                     \o CPUArch_Display(locals[p].cpu) \o " " \o Str(locals[p].version)
           /\ locals[p].fetches = 1
           /\ locals[p].written = 0
           /\ JustReturned(p) => fs = locals[p].fs_before

\* C2 witness: a call that was served the tampered archive has returned
C2_Witness ==
    \E p \in Procs :
        /\ pc[p] = "returned"
        /\ locals[p].data = TamperedArchive
        /\ ~result[p].ok
        /\ ~fs.exists

\* C3 as stated: two successive calls from an absent destination perform exactly one
\* fetch in total, and a call made while the destination exists performs no fetch, no
\* verification and no extraction and returns success.
C3_Original ==
    /\ (outDir # "" /\ Len(history) = 2 /\ ~history[1].existed)
          => history[1].fetches + history[2].fetches = 1
    /\ \A i \in 1..Len(history) :
          history[i].existed => history[i].fetches = 0 /\ history[i].ok

\* C3 amended: when the first of two successive calls from an absent destination
\* returns success, the two perform exactly one fetch in total; a call made while the
\* destination exists performs no fetch, no verification and no extraction and
\* returns success.
C3_IdempotentAfterSuccess ==
    /\ (Len(history) >= 2 /\ ~history[1].existed /\ history[1].ok)
          => /\ history[1].fetches + history[2].fetches = 1
             /\ history[2].existed
    /\ \A i \in 1..Len(history) :
          history[i].existed => history[i].fetches = 0 /\ history[i].ok
    /\ \A p \in Procs :
          (locals[p].fs_before.exists /\ pc[p] # "idle")
          => /\ locals[p].fetches = 0
             /\ ~locals[p].verified
             /\ locals[p].written = 0
             /\ locals[p].data = NoData
             /\ (pc[p] # "returned" \/ JustReturned(p)) => fs = locals[p].fs_before
             /\ pc[p] \in {"exists", "set_var", "returned"}
             /\ pc[p] = "returned" => result[p].ok

\* C3 witness: the first call installed, the second returned success without a fetch
C3_Witness ==
    /\ Len(history) = 2
    /\ ~history[1].existed /\ history[1].ok /\ history[1].fetches = 1
    /\ history[2].existed /\ history[2].ok /\ history[2].fetches = 0
    /\ Len(requests) = 1

\* C4: after every successful download_protoc call, PROTOC holds the path of the
\* installed executable, bin/protoc inside the install destination.
C4_ProtocIsExecutablePath ==
    \A p \in Procs :
        (pc[p] = "returned" /\ result[p].ok)
        => protocEnv[p] = join(join(join(outDir, "protoc_zip"), "bin"), "protoc")

Supported == OS_current(osId) # Panic /\ CPUArch_current(archId) # Panic

\* The positions inside a call of download_protoc
InProgress == {"exists", "current", "known_hash", "download", "verify", "unzip",
               "extract", "set_var"}

\* The next step of the call process p is in
StepOf(p) ==
    \/ Exists(p) \/ Current(p) \/ LookupHash(p) \/ Download(p) \/ Verify(p)
    \/ Unzip(p) \/ Extract(p) \/ SetVar(p)

\* C12: whatever the network answers (an error, any body, a body that is no Zip
\* archive), an install on a supported platform goes on to a return with success or
\* with an Error value and never aborts the process; an abort happens only in
\* OS::current() / CPUArch::current() on an unsupported platform.
C12_NoPanicOnResponse ==
    /\ \A b \in Bodies : Len(protoc_hash(b)) = 64
    /\ \A p \in Procs :
          /\ pc[p] = "panicked" =>
                /\ ~Supported
                /\ locals[p].fetches = 0
                /\ requests = <<>>
          /\ Supported => pc[p] # "panicked"
          /\ locals[p].fetches > 0 =>
                pc[p] \in {"verify", "unzip", "extract", "set_var", "returned"}
          /\ pc[p] \in InProgress => ENABLED StepOf(p)
          /\ (pc[p] = "returned" /\ ~result[p].ok) => result[p].error.message # ""

\* C12 witness: on a supported platform a call that was answered with a body that is
\* no Zip archive has returned an Error
C12_Witness ==
    \E p \in Procs :
        /\ Supported
        /\ pc[p] = "returned"
        /\ locals[p].data = NotAnArchive
        /\ ~result[p].ok

\* C13: OS::current() is Linux for "linux" and OSX for "macos", CPUArch::current() is
\* AArch64 for "aarch64" and X86_64 for "x86_64", and for every other identifier each
\* aborts the process; in an install the abort comes before any registry lookup,
\* network fetch or file system write.
C13_CurrentOrAbort ==
    /\ OS_current("linux") = "OS::Linux" /\ OS_current("macos") = "OS::OSX"
    /\ CPUArch_current("aarch64") = "CPUArch::AArch64"
    /\ CPUArch_current("x86_64") = "CPUArch::X86_64"
    /\ \A id \in OsIds \ {"linux", "macos"} : OS_current(id) = Panic
    /\ \A id \in ArchIds \ {"aarch64", "x86_64"} : CPUArch_current(id) = Panic
    /\ \A p \in Procs :
          /\ pc[p] \in {"known_hash", "download", "verify", "unzip", "extract"} =>
                /\ osId \in {"linux", "macos"}
                /\ archId \in {"aarch64", "x86_64"}
                /\ locals[p].os = (IF osId = "linux" THEN "OS::Linux" ELSE "OS::OSX")
                /\ locals[p].cpu = (IF archId = "aarch64" THEN "CPUArch::AArch64"
                                    ELSE "CPUArch::X86_64")
          /\ pc[p] = "panicked" =>
                /\ osId \notin {"linux", "macos"} \/ archId \notin {"aarch64", "x86_64"}
                /\ locals[p].os = "" /\ locals[p].cpu = ""
                /\ locals[p].expected_hash = ""
                /\ locals[p].fetches = 0
                /\ locals[p].written = 0
                /\ requests = <<>>
                /\ fs = NoFs
          /\ (osId \notin {"linux", "macos"} \/ archId \notin {"aarch64", "x86_64"}) =>
                /\ pc[p] \in {"idle", "exists", "current", "panicked", "returned"}
                /\ pc[p] = "returned" => outDir = ""

\* C13 witness: on linux/riscv64 the install has aborted in CPUArch::current()
C13_Witness ==
    \E p \in Procs :
        /\ pc[p] = "panicked"
        /\ osId = "linux"
        /\ archId = "riscv64"
        /\ outDir # ""

\* The moves of a call from one position to the next: into the install
\* (ResolvePlatform, LookupDigest, Fetch, Verify, Extract) or past it, forward only,
\* and from every stage straight to the return on its failure
StageMoves ==
    { <<"idle", "exists">>, <<"idle", "returned">>, <<"returned", "exists">>,
      <<"exists", "current">>, <<"exists", "set_var">>,
      <<"current", "known_hash">>, <<"current", "panicked">>,
      <<"known_hash", "download">>, <<"known_hash", "returned">>,
      <<"download", "verify">>, <<"download", "returned">>,
      <<"verify", "unzip">>, <<"verify", "returned">>,
      <<"unzip", "extract">>, <<"unzip", "returned">>,
      <<"extract", "set_var">>, <<"extract", "returned">>,
      <<"set_var", "returned">> }

\* What a call has done so far, stage by stage: a later stage has run only if every
\* earlier one has succeeded, the fetch has run at most once, and a failed call
\* carries the error of the stage it stopped in
StagesInOrder(p) ==
    LET l == locals[p]
    IN  /\ l.fetches <= 1
        /\ l.written <= Len(l.data.entries) + 1
        /\ l.written > 0 => l.verified
        /\ l.verified => l.actual_hash # "" /\ l.actual_hash = l.expected_hash
        /\ l.actual_hash # "" => l.data # NoData
        /\ l.data # NoData => l.fetches = 1
        /\ l.fetches = 1 => l.expected_hash # ""
        /\ l.expected_hash # "" => l.os # "" /\ l.cpu # "" /\ l.version = LATEST_VERSION
        /\ (pc[p] = "returned" /\ ~result[p].ok /\ l.os # "") =>
              LET m == result[p].error.message
                  platform == OS_Display(l.os) \o " " \o CPUArch_Display(l.cpu) \o " "
                                  \o Str(l.version)
              IN  /\ l.expected_hash = "" =>
                        /\ m = "unknown hash for " \o platform
                        /\ l.fetches = 0
                  /\ (l.fetches = 1 /\ l.data = NoData) =>
                        /\ \E e \in TransportErrors :
                              m = "failed downloading protoc from url: " \o l.url
                                      \o ": " \o e
                        /\ l.actual_hash = ""
                  /\ (l.actual_hash # "" /\ ~l.verified) =>
                        /\ m = "hash mismatch for " \o platform
                        /\ l.written = 0
                  /\ l.verified =>
                        m \in {"zip error: invalid Zip archive",
                               "io error: Permission denied"}
        /\ (pc[p] = "returned" /\ result[p].ok /\ ~l.fs_before.exists) =>
              /\ l.os # "" /\ l.expected_hash # "" /\ l.fetches = 1 /\ l.verified
              /\ l.written = Len(l.data.entries) + 1

\* C14: one install attempt runs ResolvePlatform, LookupDigest, Fetch, Verify, Extract
\* in this order, each at most once; a failure in a stage ends the attempt with that
\* stage's error and no later stage runs; Done comes only after all five succeeded.
C14_StagesInOrder ==
    /\ [](\A p \in Procs : StagesInOrder(p))
    /\ [][\A p \in Procs : pc'[p] # pc[p] => <<pc[p], pc'[p]>> \in StageMoves]_vars

\* C14 witness: an attempt that failed in Verify has returned, with one fetch behind it
\* and nothing extracted
C14_Witness ==
    \E p \in Procs :
        /\ pc[p] = "returned"
        /\ ~result[p].ok
        /\ result[p].error.message = "hash mismatch for osx aarch_64 27.1"
        /\ locals[p].fetches = 1
        /\ locals[p].written = 0
        /\ ~fs.exists

(***************************************************************************)
(* Properties of builds that run at the same time (ConcSpec)               *)
(***************************************************************************)
\* The destination lacks a file of the archive that process q is extracting
PartialTree(q) ==
    \E e \in Range(locals[q].data.entries) : FileOf(e) \notin fs.files

\* C15: two download_protoc invocations on one OUT_DIR are not serialized: no step of
\* a call waits for the other process, and a call that finds the destination
\* existing returns success with PROTOC set whatever state the other's extraction
\* is in.  The witness shows both interleavings of the claim.
C15_NotSerialized ==
    \A p \in Procs :
        /\ (pc[p] \in {"idle", "returned"} /\ calls[p] < MaxCalls)
              => ENABLED CallConcurrently(p)
        /\ pc[p] = "exists" => ENABLED Exists(p)
        /\ pc[p] \in InProgress => ENABLED StepOf(p)
        /\ (pc[p] = "returned" /\ result[p].ok /\ locals[p].fetches = 0)
              => /\ protocEnv[p] = locals[p].protoc_distribution_path
                 /\ locals[p].written = 0
                 /\ ~locals[p].verified

\* C15 witness: p and q both found the destination absent, both fetched and both
\* wrote into it; p's call failed, p called again, found the destination existing
\* while q was in the middle of its extraction and returned success with PROTOC set
\* and no fetch; q is still extracting and the destination lacks a file of the archive
C15_Witness ==
    \E p \in Procs : \E q \in Procs \ {p} :
        /\ Len(history) = 2
        /\ history[1].proc = p /\ ~history[1].ok
        /\ history[1].fetches = 1 /\ history[1].written >= 1
        /\ history[2].proc = p /\ history[2].ok /\ history[2].fetches = 0
        /\ pc[p] = "returned"
        /\ result[p].ok
        /\ protocEnv[p] = join(outDir, "protoc_zip")
        /\ locals[p].observed.fs.exists
        /\ locals[p].observed.extracting = {q}
        /\ \E e \in Range(locals[q].data.entries) :
              FileOf(e) \notin locals[p].observed.fs.files
        /\ pc[q] = "extract"
        /\ locals[q].fetches = 1
        /\ locals[q].written >= 1
        /\ PartialTree(q)

\* ------------------------------------------------------------------------------------
\* Properties of sequences of builds (Spec)
\* ------------------------------------------------------------------------------------

\* The destination holds every file of an archive whose digest is the pinned one
CompleteInstall ==
    /\ fs.exists
    /\ \E b \in Bodies :
         /\ b.sha256 \in PinnedDigests
         /\ b.entries # <<>>
         /\ \A e \in Range(b.entries) : FileOf(e) \in fs.files /\ e.dirs \subseteq fs.dirs

\* C16: in every sequence of calls made one after the other from an absent
\* destination, earlier calls that failed in the fetch, the verification or part-way
\* through the extraction included, a call that returns success leaves the
\* destination with the complete extracted contents of an archive whose digest is
\* the pinned registry digest.
C16_SuccessMeansCompleteInstall ==
    \A p \in Procs :
        (pc[p] = "returned" /\ result[p].ok /\ JustReturned(p)) => CompleteInstall

\* The call of p returns an error in this step
ReturnsError(p) == pc[p] # "returned" /\ pc'[p] = "returned" /\ ~result'[p].ok

\* The call of p returns success in this step, from the set_var line
ReturnsSuccess(p) == pc[p] = "set_var" /\ pc'[p] = "returned" /\ result'[p].ok

\* With OUT_DIR unset a call is over at once: an "env" error, and no registry
\* lookup, no request, no write
FailsOnOutDir(p) ==
    /\ pc[p] \in {"idle", "returned"}
    /\ pc[p] = "returned"
         => /\ result[p] = Err(with_prefix("env", "environment variable not found"))
            /\ locals[p].expected_hash = NoLocals.expected_hash
            /\ locals[p].fetches = 0
            /\ locals[p].written = 0
    /\ requests = <<>>
    /\ fs = NoFs
    /\ protocEnv[p] = ""

\* C17: a download_protoc call that returns an error (OUT_DIR unset, unknown release,
\* transport error, digest mismatch, archive or io error) leaves PROTOC as it was;
\* PROTOC is written only by the step that returns success; and with OUT_DIR unset
\* the call fails with an "env"-prefixed error before any registry lookup, fetch or
\* write.
C17_ProtocOnlyOnSuccess ==
    /\ [](outDir = "" => \A p \in Procs : FailsOnOutDir(p))
    /\ [][\A p \in Procs :
            /\ ReturnsError(p) => protocEnv'[p] = protocEnv[p]
            /\ protocEnv'[p] # protocEnv[p] => ReturnsSuccess(p)]_vars

\* C17 witness: OUT_DIR is unset, the call of p has returned the env error, nothing
\* was requested or written and PROTOC is not set
C17_Witness ==
    \E p \in Procs :
        /\ outDir = ""
        /\ pc[p] = "returned"
        /\ ~result[p].ok
        /\ result[p].error.message = "env: environment variable not found"
        /\ requests = <<>>
        /\ fs = NoFs
        /\ protocEnv[p] = ""


====
